---- MODULE Spec2Model ----
(***************************************************************************)
(* A model of the Daily Motivational Quotes API (motivation_api/app.py):   *)
(* the quotes table, the routes that read and change it, the x-api-key     *)
(* guard, the rate limiter in front of the views, the error handlers, and  *)
(* the quote-of-the-day selection (SHA-256 of the UTC date, modulo the     *)
(* number of quotes).                                                      *)
(***************************************************************************)
EXTENDS Integers, Sequences, FiniteSets

(***************************************************************************)
(* hashlib.sha256 (FIPS 180-4).  A 32-bit word is a pair <<hi, lo>> of     *)
(* 16-bit halves, so that no intermediate value leaves the range of the    *)
(* model checker's integers.                                               *)
(***************************************************************************)
RECURSIVE Pow2(_)
Pow2(n) == IF n = 0 THEN 1 ELSE 2 * Pow2(n - 1)

RECURSIVE Xor16(_, _, _)
Xor16(a, b, n) ==
  IF n = 0 THEN 0
  ELSE (((a % 2) + (b % 2)) % 2) + 2 * Xor16(a \div 2, b \div 2, n - 1)

RECURSIVE And16(_, _, _)
And16(a, b, n) ==
  IF n = 0 THEN 0
  ELSE ((a % 2) * (b % 2)) + 2 * And16(a \div 2, b \div 2, n - 1)

WXor(x, y) == << Xor16(x[1], y[1], 16), Xor16(x[2], y[2], 16) >>

WAnd(x, y) == << And16(x[1], y[1], 16), And16(x[2], y[2], 16) >>

WNot(x) == << 65535 - x[1], 65535 - x[2] >>

WAdd(x, y) ==
  LET lo == x[2] + y[2]
  IN  << (x[1] + y[1] + (lo \div 65536)) % 65536, lo % 65536 >>

RECURSIVE RotR(_, _)
RotR(x, n) ==
  IF n >= 16 THEN RotR(<< x[2], x[1] >>, n - 16)
  ELSE << (x[1] \div Pow2(n)) + (x[2] % Pow2(n)) * Pow2(16 - n),
          (x[2] \div Pow2(n)) + (x[1] % Pow2(n)) * Pow2(16 - n) >>

ShR(x, n) ==
  IF n >= 16 THEN << 0, x[1] \div Pow2(n - 16) >>
  ELSE << x[1] \div Pow2(n),
          (x[2] \div Pow2(n)) + (x[1] % Pow2(n)) * Pow2(16 - n) >>

Ch(x, y, z) == WXor(WAnd(x, y), WAnd(WNot(x), z))

Maj(x, y, z) == WXor(WXor(WAnd(x, y), WAnd(x, z)), WAnd(y, z))

BigSigma0(x) == WXor(WXor(RotR(x, 2), RotR(x, 13)), RotR(x, 22))

BigSigma1(x) == WXor(WXor(RotR(x, 6), RotR(x, 11)), RotR(x, 25))

SmallSigma0(x) == WXor(WXor(RotR(x, 7), RotR(x, 18)), ShR(x, 3))

SmallSigma1(x) == WXor(WXor(RotR(x, 17), RotR(x, 19)), ShR(x, 10))

\* The round constants and the initial hash value.
ShaK ==
  << <<17034, 12184>>, <<28983, 17553>>, <<46528, 64463>>, <<59829, 56229>>,
     <<14678, 49755>>, <<23025, 4593>>, <<37439, 33444>>, <<43804, 24277>>,
     <<55303, 43672>>, <<4739, 23297>>, <<9265, 34238>>, <<21772, 32195>>,
     <<29374, 23924>>, <<32990, 45566>>, <<39900, 1703>>, <<49563, 61812>>,
     <<58523, 27073>>, <<61374, 18310>>, <<4033, 40390>>, <<9228, 41420>>,
     <<11753, 11375>>, <<19060, 33962>>, <<23728, 43484>>, <<30457, 35034>>,
     <<38974, 20818>>, <<43057, 50797>>, <<45059, 10184>>, <<48985, 32711>>,
     <<50912, 3059>>, <<54695, 37191>>, <<1738, 25425>>, <<5161, 10599>>,
     <<10167, 2693>>, <<11803, 8504>>, <<19756, 28156>>, <<21304, 3347>>,
     <<25866, 29524>>, <<30314, 2747>>, <<33218, 51502>>, <<37490, 11397>>,
     <<41663, 59553>>, <<43034, 26187>>, <<49739, 35696>>, <<51052, 20899>>,
     <<53650, 59417>>, <<54937, 1572>>, <<62478, 13701>>, <<4202, 41072>>,
     <<6564, 49430>>, <<7735, 27656>>, <<10056, 30540>>, <<13488, 48309>>,
     <<14620, 3251>>, <<20184, 43594>>, <<23452, 51791>>, <<26670, 28659>>,
     <<29839, 33518>>, <<30885, 25455>>, <<33992, 30740>>, <<36039, 520>>,
     <<37054, 65530>>, <<42064, 27883>>, <<48889, 41975>>, <<50801, 30962>> >>

ShaH0 ==
  << <<27145, 58983>>, <<47975, 44677>>, <<15470, 62322>>, <<42319, 62778>>,
     <<20750, 21119>>, <<39685, 26764>>, <<8067, 55723>>, <<23520, 52505>> >>

\* Padding: the byte 0x80, zero bytes up to 56 modulo 64, the bit length in 8 bytes.
ShaPad(msg) ==
  LET len   == Len(msg)
      zeros == (119 - len) % 64
      bits  == len * 8
  IN  msg \o << 128 >> \o [i \in 1..zeros |-> 0]
          \o << 0, 0, 0, 0, (bits \div 16777216) % 256, (bits \div 65536) % 256,
                (bits \div 256) % 256, bits % 256 >>

\* The 16 big-endian words of the block starting at byte position off + 1.
ShaBlock(bytes, off) ==
  [t \in 1..16 |-> << bytes[off + 4 * t - 3] * 256 + bytes[off + 4 * t - 2],
                      bytes[off + 4 * t - 1] * 256 + bytes[off + 4 * t] >>]

RECURSIVE ShaSchedule(_)
ShaSchedule(w) ==
  LET t == Len(w) + 1
  IN  IF t > 64 THEN w
      ELSE ShaSchedule(Append(w,
             WAdd(WAdd(SmallSigma1(w[t - 2]), w[t - 7]),
                  WAdd(SmallSigma0(w[t - 15]), w[t - 16]))))

\* The 64 rounds; s holds the working variables a..h and, ninth, the round number.
RECURSIVE ShaRounds(_, _)
ShaRounds(s, w) ==
  IF s[9] > 64 THEN s
  ELSE LET t  == s[9]
           t1 == WAdd(WAdd(WAdd(s[8], BigSigma1(s[5])), Ch(s[5], s[6], s[7])),
                      WAdd(ShaK[t], w[t]))
           t2 == WAdd(BigSigma0(s[1]), Maj(s[1], s[2], s[3]))
       IN  ShaRounds(<< WAdd(t1, t2), s[1], s[2], s[3],
                        WAdd(s[4], t1), s[5], s[6], s[7], t + 1 >>, w)

ShaCompress(h, block) ==
  LET s == ShaRounds(h \o << 1 >>, ShaSchedule(block))
  IN  << WAdd(h[1], s[1]), WAdd(h[2], s[2]), WAdd(h[3], s[3]), WAdd(h[4], s[4]),
         WAdd(h[5], s[5]), WAdd(h[6], s[6]), WAdd(h[7], s[7]), WAdd(h[8], s[8]) >>

RECURSIVE ShaBlocks(_, _, _)
ShaBlocks(h, bytes, off) ==
  IF off >= Len(bytes) THEN h
  ELSE ShaBlocks(ShaCompress(h, ShaBlock(bytes, off)), bytes, off + 64)

\* hashlib.sha256(data): the eight words of the digest.
sha256(data) == ShaBlocks(ShaH0, ShaPad(data), 0)

HexChars ==
  << "0", "1", "2", "3", "4", "5", "6", "7", "8", "9", "a", "b", "c", "d", "e", "f" >>

\* The four hexadecimal characters of a 16-bit half word, most significant first.
HexHalf(half) ==
  << HexChars[(half \div 4096) + 1], HexChars[((half \div 256) % 16) + 1],
     HexChars[((half \div 16) % 16) + 1], HexChars[(half % 16) + 1] >>

HexWord(word) == HexHalf(word[1]) \o HexHalf(word[2])

\* .hexdigest(): 64 lowercase hexadecimal characters, most significant first.
hexdigest(words) ==
  HexWord(words[1]) \o HexWord(words[2]) \o HexWord(words[3]) \o HexWord(words[4])
    \o HexWord(words[5]) \o HexWord(words[6]) \o HexWord(words[7]) \o HexWord(words[8])

(***************************************************************************)
(* Bounds of the model.                                                    *)
(***************************************************************************)
\* The largest id the quotes table hands out.
MaxId == 2

\* The number of UTC dates the clock runs through, starting at FirstDate.
MaxDays == 2

\* The largest number written out as a limit or offset query argument.
MaxArg == 2

(***************************************************************************)
(* Values.  None is Python's None (a missing header, a missing or null     *)
(* JSON field, an unset environment variable): an atom different from      *)
(* every string of the input domains below.                                *)
(***************************************************************************)
None == "None"

Texts == {"t1", "t2"}

Authors == {"a1", "a2"}

ApiKeys == {"k1", "k2"}

\* The table `quotes` of models.py: rows of id, text, author.
Quote == [id : 1..MaxId, text : Texts, author : Authors]

\* Python truthiness of a JSON field: None and the empty string are falsy.
Truthy(v) == v # None /\ v # ""

(***************************************************************************)
(* The UTC date: datetime.utcnow(), strftime("%Y-%m-%d"), str.encode().    *)
(***************************************************************************)
FirstDate == [year |-> 2026, month |-> 12, day |-> 31]

IsLeap(y) == (y % 4 = 0 /\ y % 100 # 0) \/ y % 400 = 0

DaysInMonth(y, m) ==
  IF m = 2 THEN (IF IsLeap(y) THEN 29 ELSE 28)
  ELSE IF m \in {4, 6, 9, 11} THEN 30 ELSE 31

NextDay(d) ==
  IF d.day < DaysInMonth(d.year, d.month) THEN [d EXCEPT !.day = d.day + 1]
  ELSE IF d.month < 12 THEN [d EXCEPT !.month = d.month + 1, !.day = 1]
  ELSE [year |-> d.year + 1, month |-> 1, day |-> 1]

RECURSIVE DateAt(_)
DateAt(i) == IF i = 1 THEN FirstDate ELSE NextDay(DateAt(i - 1))

Dates == {DateAt(i) : i \in 1..MaxDays}

DigitChars == << "0", "1", "2", "3", "4", "5", "6", "7", "8", "9" >>

\* The decimal digits of n, zero-padded to width w.
RECURSIVE ZeroPad(_, _)
ZeroPad(n, w) ==
  IF w = 0 THEN << >>
  ELSE Append(ZeroPad(n \div 10, w - 1), DigitChars[(n % 10) + 1])

\* The date written without zero padding (2027-1-1).
strftime_nopad(d) ==
  ZeroPad(d.year, 4) \o << "-" >>
    \o (IF d.month < 10 THEN ZeroPad(d.month, 1) ELSE ZeroPad(d.month, 2)) \o << "-" >>
    \o (IF d.day < 10 THEN ZeroPad(d.day, 1) ELSE ZeroPad(d.day, 2))

strftime(d) ==
  ZeroPad(d.year, 4) \o << "-" >> \o ZeroPad(d.month, 2) \o << "-" >> \o ZeroPad(d.day, 2)

\* The ASCII code of a character of a date string.
Ord(c) ==
  IF c = "-" THEN 45
  ELSE 47 + (CHOOSE k \in 1..10 : DigitChars[k] = c)

encode(str) == [i \in 1..Len(str) |-> Ord(str[i])]

\* int(c, 16) of one hexadecimal character.
HexValue(c) == (CHOOSE k \in 1..16 : HexChars[k] = c) - 1

\* int(hex, 16) % n, the remainder taken digit by digit, most significant first.
RECURSIVE HexMod(_, _, _)
HexMod(hex, k, n) ==
  IF k = 0 THEN 0
  ELSE (HexMod(hex, k - 1, n) * 16 + HexValue(hex[k])) % n

\* hashlib.sha256(today.encode()).hexdigest() for each date the clock shows.
DateDigest == {[date |-> d, hex |-> hexdigest(sha256(encode(strftime(d))))] : d \in Dates}

\* int(hexdigest, 16) % len(quotes), tabulated for each date and each table size.
QotdIndexes ==
  {[date |-> e.date, size |-> n, index |-> HexMod(e.hex, Len(e.hex), n)] :
     e \in DateDigest, n \in 1..MaxId}

QotdIndex(date, n) ==
  (CHOOSE e \in QotdIndexes : e.date = date /\ e.size = n).index

\* get_qotd.  A value that may be None is a sequence of at most one element:
\* << >> for None, << row >> for a row.
get_qotd(db, date) ==
  IF Len(db) = 0 THEN << >>
  ELSE << db[QotdIndex(date, Len(db)) + 1] >>

(***************************************************************************)
(* The quotes table.  A row is [id, text, author]; the table is the        *)
(* sequence of its rows in the order a query without ORDER BY enumerates   *)
(* them.                                                                   *)
(***************************************************************************)
Ids(db) == {db[i].id : i \in 1..Len(db)}

\* The position of the row with this id, 0 when there is none.
Position(db, id) ==
  IF id \in Ids(db) THEN CHOOSE i \in 1..Len(db) : db[i].id = id ELSE 0

\* Quote.query.get(id): << >> or << row >>.
query_get(db, id) ==
  IF Position(db, id) = 0 THEN << >> ELSE << db[Position(db, id)] >>

\* The ids the primary key may give a new row: larger than every id in the table
\* (rowid max + 1, or a sequence that has run further ahead).
NewIds(db) == {i \in 1..MaxId : \A j \in Ids(db) : i > j}

\* The last row removed, whichever was asked for.
RemoveLast(db, pos) == SubSeq(db, 1, Len(db) - 1)

RemoveAt(db, pos) == SubSeq(db, 1, pos - 1) \o SubSeq(db, pos + 1, Len(db))

\* The rows {"id": q.id, "text": q.text, "author": q.author} of a response.
QuoteData(q) == [id |-> q.id, text |-> q.text, author |-> q.author]

(***************************************************************************)
(* Responses.  A response is [status, body]; a handler's outcome is the    *)
(* response and the table it leaves.                                       *)
(***************************************************************************)
standard_response(success, data, message, now) ==
  [success |-> success, data |-> data, message |-> message,
   meta |-> [generated_at |-> now, version |-> "v1"]]

Reply(status, body, db) == [status |-> status, body |-> body, db |-> db]

\* An HTTPException no errorhandler is registered for: the framework's HTML page.
DefaultError(status, name, db) == Reply(status, [html |-> name], db)

\* @app.errorhandler(404)
not_found(db, now) ==
  Reply(404, standard_response(FALSE, None, "Resource not found", now), db)

\* @app.errorhandler(500): any exception a view raises.
server_error(db, now) ==
  Reply(500, standard_response(FALSE, None, "Internal server error", now), db)

\* require_api_key: TRUE when the wrapped view is called.
require_api_key(header, secret) == header = secret

Unauthorized(db, now) ==
  Reply(401, standard_response(FALSE, None, "Unauthorized", now), db)

(***************************************************************************)
(* The views.                                                              *)
(***************************************************************************)
index(db, now) ==
  Reply(200, standard_response(TRUE, [documentation |-> "endpoints"], None, now), db)

health(db, now) ==
  Reply(200, standard_response(TRUE, [status |-> "ok"], None, now), db)

\* The row's position in the result given as its id.
random_quote_position(db, pick, now) ==
  IF Len(db) = 0
  THEN Reply(404, standard_response(FALSE, None, "No quotes found", now), db)
  ELSE Reply(200,
             standard_response(TRUE, [QuoteData(db[pick]) EXCEPT !.id = pick], None, now),
             db)

\* order_by(random()).first(): pick is the row the database happens to put first.
random_quote(db, pick, now) ==
  IF Len(db) = 0
  THEN Reply(404, standard_response(FALSE, None, "No quotes found", now), db)
  ELSE Reply(200, standard_response(TRUE, QuoteData(db[pick]), None, now), db)

quote_of_the_day(db, now) ==
  LET quote == get_qotd(db, now)
  IN  IF quote = << >>
      THEN Reply(404, standard_response(FALSE, None, "No quotes found", now), db)
      ELSE Reply(200, standard_response(TRUE, QuoteData(quote[1]), None, now), db)

(***************************************************************************)
(* GET /api/v1/quotes.  A query argument is the sequence of its            *)
(* characters; args maps the names present in the query string to them.    *)
(***************************************************************************)
DefaultLimit == 10

DefaultOffset == 0

IsDigits(str) == Len(str) > 0 /\ \A i \in 1..Len(str) : \E k \in 1..10 : DigitChars[k] = str[i]

\* The value of a string of decimal digits.
RECURSIVE DigitsValue(_)
DigitsValue(str) ==
  IF Len(str) = 0 THEN 0
  ELSE DigitsValue(SubSeq(str, 1, Len(str) - 1)) * 10
         + (CHOOSE k \in 1..10 : DigitChars[k] = str[Len(str)]) - 1

\* int(str): an optional sign and decimal digits; ok is FALSE for ValueError.
int(str) ==
  LET signed == Len(str) > 0 /\ str[1] \in {"-", "+"}
      digits == IF signed THEN Tail(str) ELSE str
  IN  IF ~IsDigits(digits) THEN [ok |-> FALSE, value |-> 0]
      ELSE IF signed /\ str[1] = "-" THEN [ok |-> TRUE, value |-> 0 - DigitsValue(digits)]
      ELSE [ok |-> TRUE, value |-> DigitsValue(digits)]

\* int(request.args.get(name, default))
ArgInt(args, name, default) ==
  IF name \in DOMAIN args THEN int(args[name]) ELSE [ok |-> TRUE, value |-> default]

\* The offset skipped, but the end of the page counted from the first row.
Slice_from_start(db, offset, limit) ==
  SubSeq(db, offset + 1, IF limit < Len(db) THEN limit ELSE Len(db))

\* Quote.query.offset(offset).limit(limit).all() for non-negative arguments.
Slice(db, offset, limit) ==
  SubSeq(db, offset + 1, IF offset + limit < Len(db) THEN offset + limit ELSE Len(db))

RowData(rows) == [i \in 1..Len(rows) |-> QuoteData(rows[i])]

\* The database decides what a negative LIMIT or OFFSET means: strict is TRUE for
\* one that rejects it (the view raises), FALSE for one that reads a negative
\* limit as no limit and a negative offset as 0.
list_quotes(db, args, strict, now) ==
  LET limit  == ArgInt(args, "limit", DefaultLimit)
      offset == ArgInt(args, "offset", DefaultOffset)
  IN  IF ~limit.ok \/ ~offset.ok
      THEN Reply(400, standard_response(FALSE, None, "limit and offset must be integers", now), db)
      ELSE IF (limit.value < 0 \/ offset.value < 0) /\ strict
      THEN server_error(db, now)
      ELSE Reply(200,
                 standard_response(TRUE,
                   RowData(Slice(db, IF offset.value < 0 THEN 0 ELSE offset.value,
                                 IF limit.value < 0 THEN Len(db) ELSE limit.value)),
                   None, now),
                 db)

(***************************************************************************)
(* The admin views.  A request body is [kind, text, author]: kind is       *)
(* "object" for a JSON object (a field that is missing or null is None),   *)
(* "array" for JSON that is not an object, "malformed" for a body          *)
(* request.get_json() cannot parse.                                        *)
(***************************************************************************)
\* request.get_json() raises BadRequest, which has no errorhandler here.
BadJson(db) == DefaultError(400, "Bad Request", db)

\* "and" for "or" in the required-fields test.
create_quote_and(db, data, newid, now) ==
  IF data.kind = "malformed" THEN BadJson(db)
  ELSE IF data.kind # "object" THEN server_error(db, now)
  ELSE IF ~Truthy(data.text) /\ ~Truthy(data.author)
  THEN Reply(400, standard_response(FALSE, None, "text and author are required", now), db)
  ELSE LET quote == [id |-> newid, text |-> data.text, author |-> data.author]
       IN  Reply(201, standard_response(TRUE, QuoteData(quote), None, now),
                 Append(db, quote))

create_quote(db, data, newid, now) ==
  IF data.kind = "malformed" THEN BadJson(db)
  ELSE IF data.kind # "object" THEN server_error(db, now)
  ELSE IF ~Truthy(data.text) \/ ~Truthy(data.author)
  THEN Reply(400, standard_response(FALSE, None, "text and author are required", now), db)
  ELSE LET quote == [id |-> newid, text |-> data.text, author |-> data.author]
       IN  Reply(201, standard_response(TRUE, QuoteData(quote), None, now),
                 Append(db, quote))

\* "is not None" for truthiness: an empty string overwrites.
update_quote_blank(db, quote_id, data, now) ==
  IF data.kind = "malformed" THEN BadJson(db)
  ELSE IF query_get(db, quote_id) = << >>
  THEN Reply(404, standard_response(FALSE, None, "Quote not found", now), db)
  ELSE IF data.kind # "object" THEN server_error(db, now)
  ELSE LET pos   == Position(db, quote_id)
           old   == db[pos]
           quote == [id     |-> old.id,
                     text   |-> IF data.text # None THEN data.text ELSE old.text,
                     author |-> IF data.author # None THEN data.author ELSE old.author]
       IN  Reply(200, standard_response(TRUE, QuoteData(quote), None, now),
                 [db EXCEPT ![pos] = quote])

\* The author assigned to the text field.
update_quote_swap(db, quote_id, data, now) ==
  IF data.kind = "malformed" THEN BadJson(db)
  ELSE IF query_get(db, quote_id) = << >>
  THEN Reply(404, standard_response(FALSE, None, "Quote not found", now), db)
  ELSE IF data.kind # "object" THEN server_error(db, now)
  ELSE LET pos   == Position(db, quote_id)
           old   == db[pos]
           quote == [id     |-> old.id,
                     text   |-> IF Truthy(data.author) THEN data.author
                                ELSE IF Truthy(data.text) THEN data.text ELSE old.text,
                     author |-> old.author]
       IN  Reply(200, standard_response(TRUE, QuoteData(quote), None, now),
                 [db EXCEPT ![pos] = quote])

update_quote(db, quote_id, data, now) ==
  IF data.kind = "malformed" THEN BadJson(db)
  ELSE IF query_get(db, quote_id) = << >>
  THEN Reply(404, standard_response(FALSE, None, "Quote not found", now), db)
  ELSE IF data.kind # "object" THEN server_error(db, now)
  ELSE LET pos   == Position(db, quote_id)
           old   == db[pos]
           quote == [id     |-> old.id,
                     text   |-> IF Truthy(data.text) THEN data.text ELSE old.text,
                     author |-> IF Truthy(data.author) THEN data.author ELSE old.author]
       IN  Reply(200, standard_response(TRUE, QuoteData(quote), None, now),
                 [db EXCEPT ![pos] = quote])

delete_quote(db, quote_id, now) ==
  IF query_get(db, quote_id) = << >>
  THEN Reply(404, standard_response(FALSE, None, "Quote not found", now), db)
  ELSE Reply(200,
             standard_response(TRUE, [id |-> quote_id, message |-> "Quote deleted"], None, now),
             RemoveAt(db, Position(db, quote_id)))

(***************************************************************************)
(* The inputs: request headers, bodies and query strings.                  *)
(***************************************************************************)
Headers == {None} \cup ApiKeys

\* ADMIN_API_KEY in the environment: unset, or a key.
Secrets == {None, "k1"}

FieldValues(values) == {None, ""} \cup values

NoData == [kind |-> "none", text |-> None, author |-> None]

Bodies ==
  [kind : {"object"}, text : FieldValues(Texts), author : FieldValues(Authors)]
    \cup [kind : {"array", "malformed"}, text : {None}, author : {None}]

\* The decimal numeral of k.
RECURSIVE Numeral(_)
Numeral(k) ==
  IF k < 10 THEN << DigitChars[k + 1] >>
  ELSE Append(Numeral(k \div 10), DigitChars[(k % 10) + 1])

ArgStrings ==
  {Numeral(k) : k \in 0..MaxArg} \cup {<< "a", "b", "c" >>, << >>, << "-", "1" >>}

ListArgs == UNION {[names -> ArgStrings] : names \in SUBSET {"limit", "offset"}}

EmptyArgs == [name \in {} |-> << >>]

Request(route, key, id, data, args) ==
  [route |-> route, key |-> key, id |-> id, data |-> data, args |-> args]

\* The endpoints the limiter counts requests for.
LimitedRoutes ==
  {"index", "health", "quote", "qotd", "list", "create", "update", "delete"}

(***************************************************************************)
(* The state.                                                              *)
(*   quotes    the quotes table                                            *)
(*   today     the UTC date datetime.utcnow() shows                        *)
(*   adminKey  os.getenv("ADMIN_API_KEY")                                  *)
(*   request   the request being answered, response the answer to it;      *)
(*             route "none" between requests                               *)
(*   prev      the table as that request found it                          *)
(*   qotdSeen  the first quote-of-the-day answer given since the table or  *)
(*             the date last changed, and whether it was asked for again   *)
(***************************************************************************)
VARIABLES quotes, today, adminKey, request, response, prev, qotdSeen

vars == << quotes, today, adminKey, request, response, prev, qotdSeen >>

NotSeen == [calls |-> 0, id |-> 0]

NoRequest == Request("none", None, 0, NoData, EmptyArgs)

NoResponse == [status |-> 0, body |-> [html |-> "none"]]

Init ==
  /\ quotes = << >>
  /\ today = FirstDate
  /\ adminKey \in Secrets
  /\ request = NoRequest
  /\ response = NoResponse
  /\ prev = << >>
  /\ qotdSeen = NotSeen

\* One request answered: out is the view's (or the framework's) outcome.
Serve(req, out) ==
  /\ request = NoRequest
  /\ request' = req
  /\ response' = [status |-> out.status, body |-> out.body]
  /\ prev' = quotes
  /\ quotes' = out.db
  /\ UNCHANGED << today, adminKey >>

\* A committed create, update or delete starts a new snapshot of the table.
Committed(out) == IF out.status \in {200, 201} THEN NotSeen ELSE qotdSeen

Index ==
  /\ Serve(Request("index", None, 0, NoData, EmptyArgs), index(quotes, today))
  /\ UNCHANGED qotdSeen

Health ==
  /\ Serve(Request("health", None, 0, NoData, EmptyArgs), health(quotes, today))
  /\ UNCHANGED qotdSeen

RandomQuote ==
  \E pick \in 1..(IF Len(quotes) = 0 THEN 1 ELSE Len(quotes)) :
    /\ Serve(Request("quote", None, 0, NoData, EmptyArgs), random_quote(quotes, pick, today))
    /\ UNCHANGED qotdSeen

\* The quote of the day drawn like the random quote.
QuoteOfTheDayRandom ==
  \E pick \in 1..(IF Len(quotes) = 0 THEN 1 ELSE Len(quotes)) :
    LET out == random_quote(quotes, pick, today)
    IN  /\ Serve(Request("qotd", None, 0, NoData, EmptyArgs), out)
        /\ qotdSeen' = IF out.status # 200 THEN qotdSeen
                       ELSE IF qotdSeen.calls = 0
                       THEN [calls |-> 1, id |-> out.body.data.id]
                       ELSE [qotdSeen EXCEPT !.calls = 2]

QuoteOfTheDay ==
  LET out == quote_of_the_day(quotes, today)
  IN  /\ Serve(Request("qotd", None, 0, NoData, EmptyArgs), out)
      /\ qotdSeen' = IF out.status # 200 THEN qotdSeen
                     ELSE IF qotdSeen.calls = 0
                     THEN [calls |-> 1, id |-> out.body.data.id]
                     ELSE [qotdSeen EXCEPT !.calls = 2]

ListQuotes ==
  \E args \in ListArgs, strict \in BOOLEAN :
    /\ Serve(Request("list", None, 0, NoData, args), list_quotes(quotes, args, strict, today))
    /\ UNCHANGED qotdSeen

CreateQuote ==
  \E key \in Headers, data \in Bodies,
     newid \in (IF NewIds(quotes) = {} THEN {0} ELSE NewIds(quotes)) :
    LET out == IF require_api_key(key, adminKey)
               THEN create_quote(quotes, data, newid, today)
               ELSE Unauthorized(quotes, today)
    IN  /\ newid = 0 => out.status # 201
        /\ Serve(Request("create", key, 0, data, EmptyArgs), out)
        /\ qotdSeen' = Committed(out)

UpdateQuote ==
  \E key \in Headers, quote_id \in 1..MaxId, data \in Bodies :
    LET out == IF require_api_key(key, adminKey)
               THEN update_quote(quotes, quote_id, data, today)
               ELSE Unauthorized(quotes, today)
    IN  /\ Serve(Request("update", key, quote_id, data, EmptyArgs), out)
        /\ qotdSeen' = Committed(out)

DeleteQuote ==
  \E key \in Headers, quote_id \in 1..MaxId :
    LET out == IF require_api_key(key, adminKey)
               THEN delete_quote(quotes, quote_id, today)
               ELSE Unauthorized(quotes, today)
    IN  /\ Serve(Request("delete", key, quote_id, NoData, EmptyArgs), out)
        /\ qotdSeen' = Committed(out)

\* A path no rule matches: the 404 handler.
NotFound ==
  /\ Serve(Request("unknown", None, 0, NoData, EmptyArgs), not_found(quotes, today))
  /\ UNCHANGED qotdSeen

\* A path a rule matches, with a method the rule does not list (GET on
\* /api/v1/quotes/<id>): MethodNotAllowed, which has no errorhandler.
MethodNotAllowed ==
  /\ Serve(Request("method", None, 0, NoData, EmptyArgs),
           DefaultError(405, "Method Not Allowed", quotes))
  /\ UNCHANGED qotdSeen

\* The limiter refuses the request before its view (and the view's guard) runs;
\* it reads the endpoint and the client address, nothing else of the request.
RateLimited ==
  \E route \in LimitedRoutes :
    /\ Serve(Request(route, None, 0, NoData, EmptyArgs),
             DefaultError(429, "Too Many Requests", quotes))
    /\ UNCHANGED qotdSeen

\* The response is sent and the request context is popped.
EndRequest ==
  /\ request # NoRequest
  /\ request' = NoRequest
  /\ response' = NoResponse
  /\ prev' = << >>
  /\ UNCHANGED << quotes, today, adminKey, qotdSeen >>

\* Midnight UTC, between two requests.
DayPasses ==
  /\ request = NoRequest
  /\ today # DateAt(MaxDays)
  /\ today' = NextDay(today)
  /\ qotdSeen' = NotSeen
  /\ UNCHANGED << quotes, adminKey, request, response, prev >>

Next ==
  \/ Index
  \/ Health
  \/ RandomQuote
  \/ QuoteOfTheDay
  \/ ListQuotes
  \/ CreateQuote
  \/ UpdateQuote
  \/ DeleteQuote
  \/ NotFound
  \/ MethodNotAllowed
  \/ RateLimited
  \/ EndRequest
  \/ DayPasses

Spec == Init /\ [][Next]_vars

(***************************************************************************)
(* Properties.  They read the answered request: request, response, the     *)
(* table before (prev) and after (quotes).                                 *)
(***************************************************************************)
\* The limiter let the request through to its view.
Admitted == request # NoRequest /\ response.status # 429

\* An admin secret is configured and the x-api-key header carries it.
Authorized == adminKey # None /\ request.key = adminKey

IsEnvelope(body) ==
  /\ DOMAIN body = {"success", "data", "message", "meta"}
  /\ DOMAIN body.meta = {"generated_at", "version"}
  /\ body.meta.version = "v1"

Failure(status) ==
  /\ response.status = status
  /\ IsEnvelope(response.body)
  /\ response.body.success = FALSE

Min(a, b) == IF a < b THEN a ELSE b

Max(a, b) == IF a > b THEN a ELSE b

C2_MissingOrWrongKeyIs401 ==
  (/\ request.route \in {"create", "update", "delete"}
   /\ Admitted
   /\ (request.key = None \/ request.key # adminKey)) =>
    /\ Failure(401)
    /\ response.body.message = "Unauthorized"
    /\ quotes = prev

\* C3: every persisted quote has a non-empty text and a non-empty author, and a
\* row keeps its id from its creation to its deletion: a request that is not a
\* committed delete leaves every row of the table at its place with its id, and a
\* delete leaves only rows that were there, each id once.
C3_NonEmptyAndStableId ==
  /\ \A i \in 1..Len(quotes) :
       /\ quotes[i].text # None /\ quotes[i].text # ""
       /\ quotes[i].author # None /\ quotes[i].author # ""
  /\ \A i, j \in 1..Len(quotes) : quotes[i].id = quotes[j].id => i = j
  /\ (request # NoRequest /\ ~(request.route = "delete" /\ response.status = 200)) =>
       \A i \in 1..Len(prev) : i <= Len(quotes) /\ quotes[i].id = prev[i].id
  /\ (request.route = "delete" /\ response.status = 200) =>
       \A i \in 1..Len(quotes) : \E j \in 1..Len(prev) : quotes[i] = prev[j]

\* An update that changed the second of two quotes.
C3_Witness ==
  /\ request.route = "update"
  /\ response.status = 200
  /\ Len(prev) = 2
  /\ quotes[2] # prev[2]
  /\ quotes[2].id = prev[2].id

\* C4 (as claimed): every response other than the limiter's 429 is the envelope
\* {success, data, message, meta{generated_at, version = "v1"}}.
C4_AlwaysEnvelope ==
  Admitted => IsEnvelope(response.body)

\* C5: an authorized POST /api/v1/quotes with a JSON object that lacks text or
\* author, or gives either as the empty string, is answered 400 with success false
\* and changes nothing; with both non-empty it is answered 201, appends exactly one
\* quote with that text and author, leaves the others as they were, and returns an
\* id no other quote has.
C5_Create ==
  (request.route = "create" /\ Admitted /\ Authorized /\ request.data.kind = "object") =>
    IF request.data.text \in {None, ""} \/ request.data.author \in {None, ""}
    THEN Failure(400) /\ quotes = prev
    ELSE /\ response.status = 201
         /\ IsEnvelope(response.body)
         /\ response.body.success = TRUE
         /\ Len(quotes) = Len(prev) + 1
         /\ SubSeq(quotes, 1, Len(prev)) = prev
         /\ quotes[Len(quotes)].text = request.data.text
         /\ quotes[Len(quotes)].author = request.data.author
         /\ response.body.data = QuoteData(quotes[Len(quotes)])
         /\ \A i \in 1..Len(prev) : prev[i].id # response.body.data.id

\* A quote created next to an existing one.
C5_Witness ==
  /\ request.route = "create"
  /\ response.status = 201
  /\ Len(prev) = 1
  /\ Len(quotes) = 2

\* The row of the table with this id.
RowOf(db, id) == db[CHOOSE i \in 1..Len(db) : db[i].id = id]

\* All rows but the one with this id are the same, at the same places.
OthersUnchanged(id) ==
  /\ Len(quotes) = Len(prev)
  /\ \A i \in 1..Len(prev) : prev[i].id # id => quotes[i] = prev[i]

\* C6 (as claimed): an authorized PUT on an id not in the table is answered 404 and
\* changes nothing; on an existing id it is answered 200 and overwrites exactly the
\* fields supplied in the body, keeps the id and leaves every other quote unchanged.
C6_OverwritesSuppliedFields ==
  (request.route = "update" /\ Admitted /\ Authorized /\ request.data.kind = "object") =>
    IF request.id \notin Ids(prev)
    THEN Failure(404) /\ quotes = prev
    ELSE /\ response.status = 200
         /\ OthersUnchanged(request.id)
         /\ request.id \in Ids(quotes)
         /\ RowOf(quotes, request.id).text =
              (IF request.data.text # None THEN request.data.text
               ELSE RowOf(prev, request.id).text)
         /\ RowOf(quotes, request.id).author =
              (IF request.data.author # None THEN request.data.author
               ELSE RowOf(prev, request.id).author)

\* C6 (amended): an authorized PUT with a JSON object on an id not in the table is
\* answered 404 and changes nothing; on an existing id it is answered 200 and
\* overwrites exactly the fields supplied with a non-empty value (a field that is
\* missing, null or the empty string leaves the stored value), keeps the id at its
\* place and leaves every other quote unchanged.
C6_OverwritesNonEmptyFields ==
  (request.route = "update" /\ Admitted /\ Authorized /\ request.data.kind = "object") =>
    IF request.id \notin Ids(prev)
    THEN Failure(404) /\ quotes = prev
    ELSE /\ response.status = 200
         /\ IsEnvelope(response.body)
         /\ response.body.success = TRUE
         /\ OthersUnchanged(request.id)
         /\ request.id \in Ids(quotes)
         /\ Position(quotes, request.id) = Position(prev, request.id)
         /\ RowOf(quotes, request.id).text =
              (IF request.data.text \in {None, ""} THEN RowOf(prev, request.id).text
               ELSE request.data.text)
         /\ RowOf(quotes, request.id).author =
              (IF request.data.author \in {None, ""} THEN RowOf(prev, request.id).author
               ELSE request.data.author)
         /\ response.body.data = QuoteData(RowOf(quotes, request.id))

\* A PUT with only text: the text of the second of two quotes changed, its author
\* did not.
C6_Witness ==
  /\ request.route = "update"
  /\ response.status = 200
  /\ request.data.author = None
  /\ Len(prev) = 2
  /\ request.id = prev[2].id
  /\ quotes[2].text # prev[2].text
  /\ quotes[2].author = prev[2].author

\* C7: an authorized DELETE on an id not in the table is answered 404 and changes
\* nothing; on an existing id it is answered 200 and removes exactly that quote;
\* a PUT or DELETE that looks up an id not in the table is answered 404, and an id
\* enters the table only by a create answered 201.
C7_Delete ==
  /\ (request.route = "delete" /\ Admitted /\ Authorized) =>
       IF request.id \notin Ids(prev)
       THEN Failure(404) /\ quotes = prev
       ELSE /\ response.status = 200
            /\ IsEnvelope(response.body)
            /\ response.body.success = TRUE
            /\ request.id \notin Ids(quotes)
            /\ Len(quotes) = Len(prev) - 1
            /\ \A i \in 1..Len(prev) :
                 prev[i].id # request.id =>
                   \E j \in 1..Len(quotes) : quotes[j] = prev[i]
  /\ (/\ request.route \in {"update", "delete"}
      /\ Admitted /\ Authorized
      /\ request.data.kind # "malformed"
      /\ request.id \notin Ids(prev)) => Failure(404)
  /\ (request # NoRequest /\ Ids(quotes) \ Ids(prev) # {}) =>
       request.route = "create" /\ response.status = 201

\* The first of two quotes deleted, the second left.
C7_Witness ==
  /\ request.route = "delete"
  /\ response.status = 200
  /\ Len(prev) = 2
  /\ request.id = prev[1].id
  /\ quotes = << prev[2] >>

\* C8: GET /api/v1/quote and GET /api/v1/qotd are answered 404 with success false
\* exactly when the table is empty; otherwise 200 with the id, text and author of
\* a quote in the table; neither changes the table.
C8_RandomAndQotd ==
  (request.route \in {"quote", "qotd"} /\ Admitted) =>
    /\ quotes = prev
    /\ IF Len(prev) = 0 THEN Failure(404)
       ELSE /\ response.status = 200
            /\ IsEnvelope(response.body)
            /\ response.body.success = TRUE
            /\ \E i \in 1..Len(prev) : response.body.data = QuoteData(prev[i])

\* A random quote that is the second of two.
C8_Witness ==
  /\ request.route = "quote"
  /\ response.status = 200
  /\ Len(prev) = 2
  /\ response.body.data = QuoteData(prev[2])

\* What a query argument says, read without int(): the number k when it is the
\* numeral of k, -1 otherwise.
Written(str) ==
  IF \E k \in 0..MaxArg : str = Numeral(k)
  THEN CHOOSE k \in 0..MaxArg : str = Numeral(k)
  ELSE -1

\* A minus sign and a numeral: an integer, but not a non-negative one.
IsNegativeNumeral(str) == \E k \in 0..MaxArg : str = << "-" >> \o Numeral(k)

\* C9: for a table of n quotes, GET /api/v1/quotes with limit and offset that are
\* non-negative integers (a missing limit is 10, a missing offset 0) is answered 200
\* with exactly min(limit, max(0, n - offset)) items, the rows of the table from
\* position offset on; a limit or offset that is not an integer is answered 400
\* with success false.
C9_List ==
  (request.route = "list" /\ Admitted) =>
    LET given(name) == name \in DOMAIN request.args
        limit  == IF given("limit") THEN Written(request.args["limit"]) ELSE 10
        offset == IF given("offset") THEN Written(request.args["offset"]) ELSE 0
        notInt(name) == /\ given(name)
                        /\ Written(request.args[name]) = -1
                        /\ ~IsNegativeNumeral(request.args[name])
        n == Len(prev)
    IN  /\ quotes = prev
        /\ (limit >= 0 /\ offset >= 0) =>
             /\ response.status = 200
             /\ IsEnvelope(response.body)
             /\ response.body.success = TRUE
             /\ Len(response.body.data) = Min(limit, Max(0, n - offset))
             /\ \A i \in 1..Len(response.body.data) :
                  response.body.data[i] = QuoteData(prev[offset + i])
        /\ (notInt("limit") \/ notInt("offset")) => Failure(400)

\* limit=2&offset=1 on a table of two quotes: one item, the second quote.
C9_Witness ==
  /\ request.route = "list"
  /\ response.status = 200
  /\ request.args = [limit |-> << "2" >>, offset |-> << "1" >>]
  /\ Len(prev) = 2
  /\ response.body.data = << QuoteData(prev[2]) >>

\* The date written YYYY-MM-DD, without strftime.
IsoDate(d) ==
  Numeral(d.year) \o << "-" >>
    \o (IF d.month < 10 THEN << "0" >> ELSE << >>) \o Numeral(d.month) \o << "-" >>
    \o (IF d.day < 10 THEN << "0" >> ELSE << >>) \o Numeral(d.day)

\* The SHA-256 digest of each date string, as eight 32-bit words.
DateWords == {[date |-> d, words |-> sha256(encode(IsoDate(d)))] : d \in Dates}

RECURSIVE PowMod(_, _, _)
PowMod(b, e, n) == IF e = 0 THEN 1 % n ELSE (PowMod(b, e - 1, n) * (b % n)) % n

\* The digest read as one non-negative integer, modulo n: word k of the eight
\* weighs 2^(32 (8 - k)), its high half 2^16 more.
RECURSIVE WordsMod(_, _, _)
WordsMod(words, k, n) ==
  IF k = 0 THEN 0
  ELSE (WordsMod(words, k - 1, n)
          + (words[k][1] % n) * PowMod(65536, 2 * (8 - k) + 1, n)
          + (words[k][2] % n) * PowMod(65536, 2 * (8 - k), n)) % n

DigestMod(date, n) == WordsMod((CHOOSE e \in DateWords : e.date = date).words, 8, n)

\* FIPS 180-4's example: the digest of "abc".
AbcDigest == hexdigest(sha256(<< 97, 98, 99 >>))

AbcExpected ==
  << "b", "a", "7", "8", "1", "6", "b", "f", "8", "f", "0", "1", "c", "f", "e", "a",
     "4", "1", "4", "1", "4", "0", "d", "e", "5", "d", "a", "e", "2", "2", "2", "3",
     "b", "0", "0", "3", "6", "1", "a", "3", "9", "6", "1", "7", "7", "a", "9", "c",
     "b", "4", "1", "0", "f", "f", "6", "1", "f", "2", "0", "0", "1", "5", "a", "d" >>

\* C10: for a table of n > 0 quotes the index get_qotd computes is the SHA-256
\* digest of the date written YYYY-MM-DD, read as a non-negative integer, modulo n;
\* it is in [0, n), and the quote returned is the row at that index.
C10_QotdIndex ==
  /\ AbcDigest = AbcExpected
  /\ (request.route = "qotd" /\ response.status = 200) =>
       LET n  == Len(prev)
           ix == DigestMod(response.body.meta.generated_at, n)
       IN  /\ n > 0
           /\ ix \in 0..(n - 1)
           /\ response.body.data = QuoteData(prev[ix + 1])

\* New Year's Day 2027, two quotes: the digest is even, the first quote is returned.
C10_Witness ==
  /\ request.route = "qotd"
  /\ response.status = 200
  /\ response.body.meta.generated_at = [year |-> 2027, month |-> 1, day |-> 1]
  /\ Len(prev) = 2
  /\ response.body.data = QuoteData(prev[1])
  /\ DigestMod(response.body.meta.generated_at, 3) = 2

====
